---- MODULE Spec2Model ----
(***************************************************************************)
(* Model of the bonusly client (src/src/lib.rs): the request pipeline      *)
(* (_get, submit, delete), the envelope decoder (From<Response<T>> for     *)
(* Result<T>), the paged stream built by Client::get_stream on top of      *)
(* futures' try_flatten_stream and try_unfold, and IntoVec::into_vec.      *)
(***************************************************************************)
EXTENDS Integers, Sequences, FiniteSets, TLC

\* ------------------------------------------------------------------ bounds
MaxN == 5        \* largest upstream collection
MaxP == 3        \* largest page size (limit) a caller passes
MaxEnd == 2      \* pulls made after the stream has reported its end
MaxVec == 3      \* longest stream handed to into_vec
MaxPairN == 2    \* largest collection when two streams run side by side

\* --------------------------------------------------------------- constants
REQUEST_TIMEOUT == 5

VARIABLES
    upstream,    \* the server's collection, in server order (not mutated)
    limit,       \* get_stream's limit argument (the page size)
    query,       \* get_stream's query argument (caller-supplied pairs)
    stage,       \* try_flatten_stream: "First", "Second", "Empty"; "Panicked"
    hasState,    \* try_unfold: its state is Some(..)
    data,        \* try_unfold state: the reversed page still to deliver
    skip,        \* try_unfold state: the offset of the next refill
    inflight,    \* the _get future held by the stream, if any
    pulling,     \* a next() of the consumer is pending on the stream
    out,         \* what the pulls have delivered, in order
    fetches,     \* the requests sent, in order
    received,    \* the items of every page received so far, in order
    pages,       \* the length of the page each successful fetch returned
    failed,      \* number of fetches whose _get returned Err
    aborted,     \* a pending pull was dropped with its fetch in flight
    method,      \* single request: the operation called
    response,    \* single request: what the server answered
    outcome,     \* single request: what the operation returned
    progress,    \* single request: where the operation's future stands
    source,      \* into_vec: what the stream being collected still yields
    gathered,    \* into_vec: the Vec<Result<T>> collected so far
    collected,   \* into_vec: its return value
    client,      \* the Client the streams were created from
    focus,       \* which of two streams the stream variables hold (1 or 2)
    peer         \* the state of the other of the two streams

streamVars == <<upstream, limit, query, stage, hasState, data, skip, inflight,
                pulling, out, fetches, received, pages, failed, aborted>>
reqVars == <<method, response, outcome, progress>>
vecVars == <<source, gathered, collected>>
pairVars == <<client, focus, peer>>
vars == <<upstream, limit, query, stage, hasState, data, skip, inflight,
          pulling, out, fetches, received, pages, failed, aborted,
          method, response, outcome, progress,
          source, gathered, collected,
          client, focus, peer>>

\* ---------------------------------------------------------------- helpers
Min(a, b) == IF a < b THEN a ELSE b

CeilDiv(a, b) == (a + b - 1) \div b

Last(s) == s[Len(s)]

Front(s) == SubSeq(s, 1, Len(s) - 1)

\* Vec::reverse
Reverse(s) == [i \in 1..Len(s) |-> s[Len(s) + 1 - i]]

\* Option<T>
NoneOf(dflt) == [some |-> FALSE, val |-> dflt]

SomeOf(v) == [some |-> TRUE, val |-> v]

\* ----------------------------------------------------------------- errors
NoError == [kind |-> "none", code |-> 0, message |-> ""]

\* Error::api_error
api_error(m) == [kind |-> "Api", code |-> 0, message |-> m]

\* Error::from(reqwest::Error), by the failure the reqwest error reports
ErrorFrom(kind, code) == [kind |-> kind, code |-> code, message |-> ""]

\* Result<T>, and a panic of the decoding task
Ok(v) == [tag |-> "Ok", val |-> v, err |-> NoError]

Err(e) == [tag |-> "Err", val |-> <<>>, err |-> e]

Panic == [tag |-> "Panic", val |-> <<>>, err |-> NoError]

\* ------------------------------------------------------------- responses
Statuses == {200, 204, 304, 404, 500}

Messages == {"not found"}

GarbageBody == [kind |-> "garbage", success |-> FALSE,
                message |-> NoneOf(""), result |-> NoneOf(<<>>)]

\* the body of a response whose head has arrived and whose body has not
BodyPending == [kind |-> "pending", success |-> FALSE,
                message |-> NoneOf(""), result |-> NoneOf(<<>>)]

\* the bodies whose transfer fails after the head has arrived: the request
\* timeout expires, or the connection is lost
BodyFailures ==
    {[kind |-> k, success |-> FALSE, message |-> NoneOf(""),
      result |-> NoneOf(<<>>)] : k \in {"timeout", "lost"}}

\* the bodies that parse as Response<T>, with the payloads in `payloads`
Envelopes(payloads) ==
    [kind : {"envelope"}, success : BOOLEAN,
     message : {NoneOf("")} \cup {SomeOf(m) : m \in Messages},
     result : {NoneOf(<<>>)} \cup {SomeOf(v) : v \in payloads}]

TransportFailure == [transport |-> "fail", status |-> 0, body |-> GarbageBody]

\* everything a server (or the network) can answer to one request
Responses(payloads) ==
    {TransportFailure} \cup
    [transport : {"ok"}, status : Statuses,
     body : {GarbageBody} \cup BodyFailures \cup Envelopes(payloads)]

\* nothing has arrived: send() is pending
NoResponse == [transport |-> "none", status |-> 0, body |-> GarbageBody]

\* what send() resolves with: the status line and headers of the response
\* (or the failure), the body still to be read
HeadOf(resp) ==
    IF resp.transport = "ok" THEN [resp EXCEPT !.body = BodyPending] ELSE resp

\* Poll::Pending: the future has no result yet
NoOutcome == [res |-> [tag |-> "None", val |-> <<>>, err |-> NoError],
              parsed |-> FALSE]

\* ----------------------------------------------------- envelope decoder
\* the decoder with the success flag ignored when a result is present
FromResponsePayloadFirst(v) ==
    IF v.success \/ v.result.some
    THEN (IF v.result.some THEN Ok(v.result.val) ELSE Panic)
    ELSE Err(api_error(IF v.message.some THEN v.message.val ELSE "no message"))

\* impl From<Response<T>> for Result<T>
FromResponse(v) ==
    IF v.success
    THEN (IF v.result.some THEN Ok(v.result.val) ELSE Panic)
    ELSE Err(api_error(IF v.message.some THEN v.message.val ELSE "no message"))

\* ------------------------------------------------------ request pipeline
\* reqwest::Response::error_for_status: Err for a 4xx or 5xx status
error_for_status(status) == status >= 400 /\ status <= 599

\* send().map_err(..).and_then(error_for_status .. json::<Response<T>>() ..)
\* polled with what has arrived of the response: pending while send() has
\* not resolved, and while json() waits for the body; otherwise the result
\* (the error of send(), of the status, of the body transfer or of the
\* parser, or the decoded envelope), and whether the body was handed to the
\* JSON parser
Pipeline(resp) ==
    IF resp.transport = "none"
    THEN NoOutcome
    ELSE IF resp.transport = "fail"
    THEN [res |-> Err(ErrorFrom("Transport", 0)), parsed |-> FALSE]
    ELSE IF error_for_status(resp.status)
    THEN [res |-> Err(ErrorFrom("HttpStatus", resp.status)), parsed |-> FALSE]
    ELSE IF resp.body.kind = "pending"
    THEN NoOutcome
    ELSE IF resp.body.kind = "timeout"
    THEN [res |-> Err(ErrorFrom("Transport", 0)), parsed |-> FALSE]
    ELSE IF resp.body.kind = "lost"
    THEN [res |-> Err(ErrorFrom("Body", 0)), parsed |-> FALSE]
    ELSE IF resp.body.kind = "garbage"
    THEN [res |-> Err(ErrorFrom("Decode", 0)), parsed |-> TRUE]
    ELSE [res |-> FromResponse(resp.body), parsed |-> TRUE]

\* Client::_get
_get(resp) == Pipeline(resp)

\* Client::submit (post and put)
submit(resp) == Pipeline(resp)

\* Client::delete
delete(resp) == Pipeline(resp)

\* Client::get
get(resp) == _get(resp)

\* Client::post
post(resp) == submit(resp)

\* Client::put
put(resp) == submit(resp)

\* ------------------------------------------------------------- the client
BASE_URL == "https://bonus.ly/api/v1"

\* the bytes of "Bearer "
Bearer == <<66, 101, 97, 114, 101, 114, 32>>

\* the bytes of the access token "token"
TOKEN == <<116, 111, 107, 101, 110>>

\* the access tokens callers pass: "token", one with a tab, one with a
\* newline, one with DEL, and the empty one
Tokens == {TOKEN, <<116, 9, 107>>, <<98, 97, 100, 10, 116>>, <<116, 127>>,
           <<>>}

\* http::header::HeaderValue: the bytes a header value may hold
is_valid(b) == (b >= 32 /\ b # 127) \/ b = 9

\* HeaderValue::from_str(..).is_ok()
from_str(src) == \A i \in 1..Len(src) : is_valid(src[i])

\* no Client: Client::new panicked
NoClient ==
    [built |-> FALSE, base_url |-> "", token |-> <<>>, timeout |-> 0,
     gzip |-> FALSE]

\* Client::new: panics (expect("valid bearer token")) when "Bearer " followed
\* by the token is not a header value
new(token) ==
    IF from_str(Bearer \o token)
    THEN [built |-> TRUE, base_url |-> BASE_URL, token |-> token,
          timeout |-> REQUEST_TIMEOUT, gzip |-> TRUE]
    ELSE NoClient

\* ------------------------------------------------------- single requests
Payloads == {<<>>, <<1>>, <<1, 2>>}

\* the future a call returned, polled with what has arrived
Poll(m, resp) ==
    CASE m = "GET" -> get(resp)
      [] m = "POST" -> post(resp)
      [] m = "PUT" -> put(resp)
      [] m = "DELETE" -> delete(resp)

ReqIdle ==
    /\ method = "none"
    /\ response = NoResponse
    /\ outcome = NoOutcome
    /\ progress = "none"

\* a call and the first poll of the future it returns: the request is sent
\* and the future is pending on send()
Get ==
    /\ client.built
    /\ progress = "none"
    /\ method' = "GET"
    /\ outcome' = get(NoResponse)
    /\ progress' = "send"
    /\ UNCHANGED <<response, streamVars, vecVars, pairVars>>

Post ==
    /\ client.built
    /\ progress = "none"
    /\ method' = "POST"
    /\ outcome' = post(NoResponse)
    /\ progress' = "send"
    /\ UNCHANGED <<response, streamVars, vecVars, pairVars>>

Put ==
    /\ client.built
    /\ progress = "none"
    /\ method' = "PUT"
    /\ outcome' = put(NoResponse)
    /\ progress' = "send"
    /\ UNCHANGED <<response, streamVars, vecVars, pairVars>>

Delete ==
    /\ client.built
    /\ progress = "none"
    /\ method' = "DELETE"
    /\ outcome' = delete(NoResponse)
    /\ progress' = "send"
    /\ UNCHANGED <<response, streamVars, vecVars, pairVars>>

\* send() resolves and the future is polled: a failure or an error status
\* is the result; otherwise the future is pending on json()
RespondHead ==
    /\ progress = "send"
    /\ \E resp \in Responses(Payloads) :
        /\ response' = resp
        /\ outcome' = Poll(method, HeadOf(resp))
        /\ progress' = IF Poll(method, HeadOf(resp)) = NoOutcome
                       THEN "json" ELSE "done"
    /\ UNCHANGED <<method, streamVars, vecVars, pairVars>>

\* the body has arrived and the future is polled: json() and Result::from
RespondBody ==
    /\ progress = "json"
    /\ outcome' = Poll(method, response)
    /\ progress' = "done"
    /\ UNCHANGED <<method, response, streamVars, vecVars, pairVars>>

\* the caller drops the pending future: it is never polled again
Drop ==
    /\ progress \in {"send", "json"}
    /\ progress' = "dropped"
    /\ UNCHANGED <<method, response, outcome, streamVars, vecVars, pairVars>>

\* ------------------------------------------------------------ the server
ReservedKeys == {"skip", "limit"}

Pair(k, v) == [k |-> k, v |-> v]

\* the value a key has for the server: that of its last pair in the URL
\* (the client sends repeated keys as they are; the server resolves them)
Effective(params, k, dflt) ==
    LET idx == {i \in 1..Len(params) : params[i].k = k}
    IN  IF idx = {} THEN dflt
        ELSE params[CHOOSE i \in idx : \A j \in idx : j <= i].v

\* the page the server holds for a request's skip and limit
ServerPage(params) ==
    LET s == Effective(params, "skip", 0)
        l == Effective(params, "limit", Len(upstream))
    IN  SubSeq(upstream, s + 1, Min(s + l, Len(upstream)))

\* what may come back for a request: any failure, or an envelope whose
\* result, when present, is the page asked for
ServerResponses(params) == Responses({ServerPage(params)})

\* ------------------------------------------------------------ get_stream
NO_QUERY == <<>>

\* the query arguments callers pass: none, a filter, or (against the
\* documentation of users::all) a reserved key
Queries == {NO_QUERY, <<Pair("email", 1)>>, <<Pair("skip", 1)>>,
            <<Pair("limit", 1)>>}

NoRequest == [active |-> FALSE, url |-> "", params |-> <<>>, add |-> <<>>]

\* RequestBuilder::query(query).query(add_query): the pairs are appended
Request(q, add) ==
    [active |-> TRUE, url |-> client.base_url, params |-> q \o add,
     add |-> add]

\* add_query of the initial load
InitialQuery == <<Pair("limit", limit)>>

\* add_query of a refill, with the offset kept in one place for all the
\* streams of a client instead of in each stream's own state
RefillQueryShared(s) ==
    <<Pair("skip", IF peer.skip > s THEN peer.skip ELSE s),
      Pair("limit", limit)>>

\* add_query of a refill, with the limit left out
RefillQueryNoLimit(s) == <<Pair("skip", s)>>

\* add_query of a refill
RefillQuery(s) == <<Pair("skip", s), Pair("limit", limit)>>

\* the buffer of a page, without the reversal
BufferInOrder(page) == page

\* data.reverse()
Buffer(page) == Reverse(page)

\* skip + page_size
NextSkipByLimit(s, page) == s + limit

\* skip + data_len
NextSkip(s, page) == s + Len(page)

\* what a pull delivers
Item(v) == [tag |-> "item", val |-> v, err |-> NoError]

Error(e) == [tag |-> "err", val |-> 0, err |-> e]

End == [tag |-> "end", val |-> 0, err |-> NoError]

Count(s, tag) == Cardinality({i \in 1..Len(s) : s[i].tag = tag})

\* the values of the items delivered, in delivery order
ItemsOf(s) ==
    LET sel == SelectSeq(s, LAMBDA e : e.tag = "item")
    IN  [i \in 1..Len(sel) |-> sel[i].val]

\* try_unfold keeps its state when the closure's `.await?` failed, so that
\* the next poll runs the closure (and the request) again
StateKeptOnError(r) ==
    \/ r.tag = "Ok" /\ r.val # <<>>
    \/ r.tag = "Err"

\* try_unfold after the closure returned: the state is Some again only for
\* Ok(Some((entry, state))); `.await?` and Ok(None) leave it None
StateKept(r) == r.tag = "Ok" /\ r.val # <<>>

\* the closure with read-ahead: the refill is sent as soon as the last
\* buffered entry is taken
UnfoldEager(d, s) ==
    IF d # <<>>
    THEN /\ out' = Append(out, Item(Last(d)))
         /\ data' = Front(d)
         /\ skip' = s
         /\ hasState' = (Front(d) # <<>>)
         /\ inflight' = IF Front(d) = <<>>
                        THEN Request(query, RefillQuery(s)) ELSE NoRequest
         /\ pulling' = FALSE
         /\ fetches' = IF Front(d) = <<>>
                       THEN Append(fetches, Request(query, RefillQuery(s)))
                       ELSE fetches
    ELSE /\ out' = out
         /\ data' = d
         /\ skip' = s
         /\ hasState' = FALSE
         /\ inflight' = Request(query, RefillQuery(s))
         /\ pulling' = TRUE
         /\ fetches' = Append(fetches, Request(query, RefillQuery(s)))

\* the closure without the refill: an empty buffer ends the stream
UnfoldNoRefill(d, s) ==
    IF d # <<>>
    THEN /\ out' = Append(out, Item(Last(d)))
         /\ data' = Front(d)
         /\ skip' = s
         /\ hasState' = TRUE
         /\ inflight' = NoRequest
         /\ pulling' = FALSE
         /\ fetches' = fetches
    ELSE /\ out' = Append(out, End)
         /\ data' = d
         /\ skip' = s
         /\ hasState' = FALSE
         /\ inflight' = NoRequest
         /\ pulling' = FALSE
         /\ fetches' = fetches

\* the try_unfold closure from state (d, s) up to its await: data.pop()
\* yields the entry, or the empty buffer sends the refill request
Unfold(d, s) ==
    IF d # <<>>
    THEN /\ out' = Append(out, Item(Last(d)))
         /\ data' = Front(d)
         /\ skip' = s
         /\ hasState' = TRUE
         /\ inflight' = NoRequest
         /\ pulling' = FALSE
         /\ fetches' = fetches
    ELSE /\ out' = out
         /\ data' = d
         /\ skip' = s
         /\ hasState' = FALSE
         /\ inflight' = Request(query, RefillQuery(s))
         /\ pulling' = TRUE
         /\ fetches' = Append(fetches, Request(query, RefillQuery(s)))

\* first poll of the stream: the future of the initial _get is polled and
\* sends its request
PullFirst ==
    /\ client.built
    /\ ~pulling
    /\ stage = "First"
    /\ ~inflight.active
    /\ inflight' = Request(query, InitialQuery)
    /\ fetches' = Append(fetches, Request(query, InitialQuery))
    /\ pulling' = TRUE
    /\ UNCHANGED <<upstream, limit, query, stage, hasState, data, skip, out,
                   received, pages, failed, aborted>>
    /\ UNCHANGED <<reqVars, vecVars, pairVars>>

\* a poll of the stream while it holds a future that is still waiting
PullResume ==
    /\ ~pulling
    /\ stage \in {"First", "Second"}
    /\ inflight.active
    /\ pulling' = TRUE
    /\ UNCHANGED <<upstream, limit, query, stage, hasState, data, skip,
                   inflight, out, fetches, received, pages, failed, aborted>>
    /\ UNCHANGED <<reqVars, vecVars, pairVars>>

\* a poll of try_unfold with its state present
PullUnfold ==
    /\ ~pulling
    /\ stage = "Second"
    /\ ~inflight.active
    /\ hasState
    /\ Unfold(data, skip)
    /\ UNCHANGED <<upstream, limit, query, stage, received, pages, failed,
                   aborted>>
    /\ UNCHANGED <<reqVars, vecVars, pairVars>>

\* a poll after the end: try_unfold without state or future, or the
\* flattened stream already Empty
PullEnded ==
    /\ ~pulling
    /\ \/ stage = "Empty"
       \/ stage = "Second" /\ ~inflight.active /\ ~hasState
    /\ Count(out, "end") < MaxEnd
    /\ out' = Append(out, End)
    /\ stage' = "Empty"
    /\ UNCHANGED <<upstream, limit, query, hasState, data, skip, inflight,
                   pulling, fetches, received, pages, failed, aborted>>
    /\ UNCHANGED <<reqVars, vecVars, pairVars>>

\* the initial _get completes while the stream is polled
RespondFirst ==
    /\ pulling
    /\ stage = "First"
    /\ inflight.active
    /\ \E resp \in ServerResponses(inflight.params) :
        LET r == _get(resp).res
        IN  CASE r.tag = "Err" ->
                   /\ stage' = "Empty"
                   /\ out' = Append(out, Error(r.err))
                   /\ failed' = failed + 1
                   /\ inflight' = NoRequest
                   /\ pulling' = FALSE
                   /\ UNCHANGED <<hasState, data, skip, fetches, received,
                                  pages>>
              [] r.tag = "Panic" ->
                   /\ stage' = "Panicked"
                   /\ inflight' = NoRequest
                   /\ pulling' = FALSE
                   /\ UNCHANGED <<hasState, data, skip, fetches, received,
                                  pages, out, failed>>
              [] r.tag = "Ok" ->
                   /\ stage' = "Second"
                   /\ received' = received \o r.val
                   /\ pages' = Append(pages, Len(r.val))
                   /\ Unfold(Buffer(r.val), Len(r.val))
                   /\ UNCHANGED failed
    /\ UNCHANGED <<upstream, limit, query, aborted>>
    /\ UNCHANGED <<reqVars, vecVars, pairVars>>

\* a refill _get completes while the stream is polled
RespondRefill ==
    /\ pulling
    /\ stage = "Second"
    /\ inflight.active
    /\ \E resp \in ServerResponses(inflight.params) :
        LET r == _get(resp).res
        IN  /\ hasState' = StateKept(r)
            /\ CASE r.tag = "Err" ->
                      /\ out' = Append(out, Error(r.err))
                      /\ failed' = failed + 1
                      /\ UNCHANGED <<stage, data, skip, received, pages>>
                 [] r.tag = "Panic" ->
                      /\ stage' = "Panicked"
                      /\ UNCHANGED <<data, skip, received, pages, out,
                                     failed>>
                 [] r.tag = "Ok" /\ r.val # <<>> ->
                      /\ out' = Append(out, Item(Last(Buffer(r.val))))
                      /\ data' = Front(Buffer(r.val))
                      /\ skip' = NextSkip(skip, r.val)
                      /\ received' = received \o r.val
                      /\ pages' = Append(pages, Len(r.val))
                      /\ UNCHANGED <<stage, failed>>
                 [] r.tag = "Ok" /\ r.val = <<>> ->
                      /\ out' = Append(out, End)
                      /\ stage' = "Empty"
                      /\ pages' = Append(pages, 0)
                      /\ UNCHANGED <<data, skip, received, failed>>
    /\ inflight' = NoRequest
    /\ pulling' = FALSE
    /\ UNCHANGED <<upstream, limit, query, fetches, aborted>>
    /\ UNCHANGED <<reqVars, vecVars, pairVars>>

\* the consumer drops its pending next() (it gives up, or a timeout around
\* the pull fires); the stream keeps the future it was polling
Abort ==
    /\ pulling
    /\ inflight.active
    /\ pulling' = FALSE
    /\ aborted' = TRUE
    /\ UNCHANGED <<upstream, limit, query, stage, hasState, data, skip,
                   inflight, out, fetches, received, pages, failed>>
    /\ UNCHANGED <<reqVars, vecVars, pairVars>>

\* ---------------------------------------------------------------- into_vec
\* Result<Vec<T>> from the items only, errors dropped
into_vec_items_only(results) == Ok(ItemsOf(results))

\* Vec<Result<T>>::into_iter().collect::<Result<Vec<T>>>(): the values up to
\* the first error, or that error
RECURSIVE FromResults(_, _)
FromResults(results, acc) ==
    IF results = <<>> THEN Ok(acc)
    ELSE IF Head(results).tag = "err" THEN Err(Head(results).err)
    ELSE FromResults(Tail(results), Append(acc, Head(results).val))

\* IntoVec::into_vec, applied to everything the stream yielded
into_vec(results) == FromResults(results, <<>>)

NoCollected == [tag |-> "None", val |-> <<>>, err |-> NoError]

\* what a stream may yield on one pull before its end
Yields ==
    {Item(1), Item(2), Error(ErrorFrom("Transport", 0)),
     Error(api_error("not found"))}

\* the streams into_vec is called on: any sequence of yields
Streams == UNION {[1..n -> Yields] : n \in 0..MaxVec}

VecIdle ==
    /\ source = <<>>
    /\ gathered = <<>>
    /\ collected = NoCollected

\* collect(): a pull yields Some(result), which is pushed
CollectNext ==
    /\ collected = NoCollected
    /\ source # <<>>
    /\ gathered' = Append(gathered, Head(source))
    /\ source' = Tail(source)
    /\ UNCHANGED collected
    /\ UNCHANGED <<streamVars, reqVars, pairVars>>

\* collect(): a pull yields None; into_vec returns
CollectEnd ==
    /\ collected = NoCollected
    /\ source = <<>>
    /\ collected' = into_vec(gathered)
    /\ UNCHANGED <<source, gathered>>
    /\ UNCHANGED <<streamVars, reqVars, pairVars>>

\* ------------------------------------------------------------ two streams
\* a stream as get_stream returns it
IdleStream(u, l, q) ==
    [upstream |-> u, limit |-> l, query |-> q, stage |-> "First",
     hasState |-> FALSE, data |-> <<>>, skip |-> 0, inflight |-> NoRequest,
     pulling |-> FALSE, out |-> <<>>, fetches |-> <<>>, received |-> <<>>,
     pages |-> <<>>, failed |-> 0, aborted |-> FALSE]

\* the stream the stream variables hold
Current ==
    [upstream |-> upstream, limit |-> limit, query |-> query, stage |-> stage,
     hasState |-> hasState, data |-> data, skip |-> skip,
     inflight |-> inflight, pulling |-> pulling, out |-> out,
     fetches |-> fetches, received |-> received, pages |-> pages,
     failed |-> failed, aborted |-> aborted]

PairIdle ==
    /\ client = new(TOKEN)
    /\ focus = 1
    /\ peer = IdleStream(<<>>, 1, NO_QUERY)

\* the consumer turns to the other of its two streams: each stream owns its
\* (data, path, client, skip), so turning to one leaves the other as it is
Switch ==
    /\ focus' = 3 - focus
    /\ peer' = Current
    /\ upstream' = peer.upstream
    /\ limit' = peer.limit
    /\ query' = peer.query
    /\ stage' = peer.stage
    /\ hasState' = peer.hasState
    /\ data' = peer.data
    /\ skip' = peer.skip
    /\ inflight' = peer.inflight
    /\ pulling' = peer.pulling
    /\ out' = peer.out
    /\ fetches' = peer.fetches
    /\ received' = peer.received
    /\ pages' = peer.pages
    /\ failed' = peer.failed
    /\ aborted' = peer.aborted
    /\ UNCHANGED client
    /\ UNCHANGED <<reqVars, vecVars>>

\* ------------------------------------------------------- specifications
StreamIdle ==
    /\ stage = "First"
    /\ hasState = FALSE
    /\ data = <<>>
    /\ skip = 0
    /\ inflight = NoRequest
    /\ pulling = FALSE
    /\ out = <<>>
    /\ fetches = <<>>
    /\ received = <<>>
    /\ pages = <<>>
    /\ failed = 0
    /\ aborted = FALSE

\* a stream over any collection, page size and query; no single request
Init ==
    /\ upstream \in {[i \in 1..n |-> i] : n \in 0..MaxN}
    /\ limit \in 0..MaxP
    /\ query \in Queries
    /\ StreamIdle
    /\ ReqIdle
    /\ VecIdle
    /\ PairIdle

Next ==
    \/ PullFirst
    \/ PullResume
    \/ PullUnfold
    \/ PullEnded
    \/ RespondFirst
    \/ RespondRefill
    \/ Abort

Spec == Init /\ [][Next]_vars

\* a client made from any access token (none when Client::new panics) and
\* one single request of any kind, answered with any response or dropped
\* while it is pending; no stream
InitReq ==
    /\ upstream = <<>>
    /\ limit = 1
    /\ query = NO_QUERY
    /\ StreamIdle
    /\ ReqIdle
    /\ VecIdle
    /\ client \in {new(token) : token \in Tokens}
    /\ focus = 1
    /\ peer = IdleStream(<<>>, 1, NO_QUERY)

NextReq ==
    \/ Get
    \/ Post
    \/ Put
    \/ Delete
    \/ RespondHead
    \/ RespondBody
    \/ Drop

SpecReq == InitReq /\ [][NextReq]_vars

\* into_vec on any stream; no get_stream, no single request
InitVec ==
    /\ upstream = <<>>
    /\ limit = 1
    /\ query = NO_QUERY
    /\ StreamIdle
    /\ ReqIdle
    /\ source \in Streams
    /\ gathered = <<>>
    /\ collected = NoCollected
    /\ PairIdle

NextVec ==
    \/ CollectNext
    \/ CollectEnd

SpecVec == InitVec /\ [][NextVec]_vars

\* two streams of one client, over the same or different collections and
\* with the same or different page sizes, each pulled by its own consumer
\* (which never drops a pending pull), in any interleaving
InitPair ==
    /\ upstream \in {[i \in 1..n |-> i] : n \in 0..MaxPairN}
    /\ limit = 1
    /\ query = NO_QUERY
    /\ StreamIdle
    /\ ReqIdle
    /\ VecIdle
    /\ client = new(TOKEN)
    /\ focus = 1
    /\ peer \in {IdleStream([i \in 1..n |-> i], l, NO_QUERY) :
                     n \in 0..MaxPairN, l \in {1, 2}}

NextPair ==
    \/ PullFirst
    \/ PullUnfold
    \/ PullEnded
    \/ RespondFirst
    \/ RespondRefill
    \/ Switch

SpecPair == InitPair /\ [][NextPair]_vars

\* ------------------------------------------------------------- the claims
\* the caller kept to the documentation: no skip or limit in its query
Documented == \A i \in 1..Len(query) : query[i].k \notin ReservedKeys

\* the stream has reported its end
Ended == Count(out, "end") > 0

\* out is k items and nothing else
OnlyItems(k) == Len(out) = k /\ Count(out, "item") = k

\* C1: with a page size >= 1, a documented query and no failing fetch, the
\* items delivered are at every moment the first upstream items, each once
\* and in upstream order, and once the stream has ended they are exactly the
\* upstream collection, delivered before the end and without any error.
C1_DrainDeliversUpstream ==
    (limit >= 1 /\ Documented /\ failed = 0) =>
        /\ Len(ItemsOf(out)) <= Len(upstream)
        /\ ItemsOf(out) = SubSeq(upstream, 1, Len(ItemsOf(out)))
        /\ Ended =>
            /\ ItemsOf(out) = upstream
            /\ Count(out, "err") = 0
            /\ \A i \in 1..Len(upstream) : out[i].tag = "item"

C1_Witness ==
    /\ limit = 2
    /\ Documented
    /\ failed = 0
    /\ Ended
    /\ aborted
    /\ upstream = <<1, 2, 3, 4, 5>>
    /\ ItemsOf(out) = upstream

\* C2: a consumer whose pulls have returned exactly k items and that then
\* stopped (no pull pending, none dropped, none that died in a panic) has
\* received the first k upstream items, and the stream has sent exactly
\* ceil(k / limit) requests, none of them still in flight.
C2_TakeFetchesOnlyWhatIsPulled ==
    (limit >= 1 /\ Documented /\ ~pulling /\ ~aborted /\ stage # "Panicked"
        /\ OnlyItems(Len(out))) =>
        /\ Len(out) <= Len(upstream)
        /\ ItemsOf(out) = SubSeq(upstream, 1, Len(out))
        /\ Len(fetches) = CeilDiv(Len(out), limit)
        /\ ~inflight.active

C2_Witness ==
    /\ limit = 2
    /\ Documented
    /\ ~pulling
    /\ ~aborted
    /\ OnlyItems(3)
    /\ Len(upstream) = 5
    /\ Len(fetches) = 2

\* C3 as stated: a drained stream has sent ceil(n / limit) requests, or one
\* when the collection is empty.
C3_Original ==
    (limit >= 1 /\ Documented /\ failed = 0 /\ Ended) =>
        Len(fetches) = IF upstream = <<>> THEN 1
                       ELSE CeilDiv(Len(upstream), limit)

\* C3 amended: a drained stream has sent ceil(n / limit) + 1 requests, or two
\* when the collection is empty: the stream ends only on an empty page, so
\* its last request is a refill with skip = n and limit = page size, also
\* after a non-empty page shorter than the page size.
C3_DrainFetches ==
    (limit >= 1 /\ Documented /\ failed = 0 /\ Ended) =>
        /\ Len(fetches) = IF upstream = <<>> THEN 2
                          ELSE CeilDiv(Len(upstream), limit) + 1
        /\ Last(fetches).add =
               <<Pair("skip", Len(upstream)), Pair("limit", limit)>>

C3_Witness ==
    /\ limit = 2
    /\ Documented
    /\ failed = 0
    /\ Ended
    /\ Len(upstream) = 5
    /\ Len(fetches) = 4
    /\ ItemsOf(out) = upstream

\* C4 as stated: over an empty collection the stream ends on the first pull
\* after exactly one request, with no item and no error.
C4_EmptyEndsAfterOneFetch ==
    (upstream = <<>> /\ limit >= 1 /\ Documented /\ failed = 0 /\ Ended) =>
        /\ out[1] = End
        /\ Count(out, "item") = 0
        /\ Count(out, "err") = 0
        /\ Len(fetches) = 1

\* C5: a failing fetch is delivered as an error exactly once, by the step in
\* which it fails, after every item received from earlier pages has been
\* delivered; from then on nothing is sent and every pull reports the end.
C5_Step ==
    /\ failed' <= 1
    /\ Count(out', "err") = failed'
    /\ failed' > failed =>
        /\ Len(out') = Len(out) + 1
        /\ Last(out').tag = "err"
        /\ Last(out').err.kind \in
               {"Transport", "HttpStatus", "Body", "Decode", "Api"}
        /\ SubSeq(out', 1, Len(out)) = out
        /\ ItemsOf(out) = received
        /\ data = <<>>
        /\ Last(fetches).params = inflight.params
        /\ fetches' = fetches
        /\ ~inflight'.active
    /\ failed = 1 =>
        /\ fetches' = fetches
        /\ inflight' = NoRequest
        /\ out' = out \/ out' = Append(out, End)

C5_FailureIsTerminal == [][C5_Step]_vars

C5_Witness ==
    /\ failed = 1
    /\ Len(fetches) = 2
    /\ Len(out) = 5
    /\ out[1].tag = "item"
    /\ out[2].tag = "item"
    /\ out[3].tag = "err"
    /\ out[3].err.kind = "Transport"
    /\ out[4] = End
    /\ out[5] = End

\* C6 as stated: a success-flagged envelope never panics; with its result
\* present the operation returns Ok(result), with its result absent it
\* returns a Decode error.
C6_SuccessEnvelopeNeverPanics ==
    (method # "none" /\ outcome.parsed /\ response.body.kind = "envelope"
        /\ response.body.success) =>
        /\ outcome.res.tag # "Panic"
        /\ response.body.result.some =>
               outcome.res = Ok(response.body.result.val)
        /\ ~response.body.result.some =>
               outcome.res.tag = "Err" /\ outcome.res.err.kind = "Decode"

\* C7: an envelope with success = false decodes to an Api error, never to a
\* value, whether or not it carries a result; the error has the envelope's
\* message, or "no message" when the envelope has none.
C7_FailureEnvelopeIsApiError ==
    (method # "none" /\ outcome.parsed /\ response.body.kind = "envelope"
        /\ ~response.body.success) =>
        /\ outcome.res.tag = "Err"
        /\ outcome.res.val = <<>>
        /\ outcome.res.err.kind = "Api"
        /\ outcome.res.err.message =
               IF response.body.message.some
               THEN response.body.message.val ELSE "no message"

C7_Witness ==
    /\ method = "GET"
    /\ response.status = 200
    /\ response.body.kind = "envelope"
    /\ ~response.body.success
    /\ response.body.message = SomeOf("not found")
    /\ response.body.result.some
    /\ outcome.res.err.kind = "Api"
    /\ outcome.res.err.message = "not found"

\* C8 as stated: an operation that has returned gives, for every response
\* with a status outside 200..299, an HTTP-status error, and the body of
\* such a response is never parsed.
C8_NonSuccessStatusShortCircuits ==
    (progress = "done" /\ response.transport = "ok") =>
        /\ response.status \notin 200..299 =>
            /\ outcome.res.tag = "Err"
            /\ outcome.res.err.kind = "HttpStatus"
            /\ ~outcome.parsed
        /\ outcome.parsed => response.status \in 200..299

\* C9 as stated: once a pending pull was dropped with its fetch in flight,
\* no later pull polls that fetch again, no request is sent and no item is
\* delivered.
C9_Step ==
    aborted =>
        /\ fetches' = fetches
        /\ Count(out', "item") = Count(out, "item")
        /\ ~(pulling' /\ inflight'.active)

C9_AbortIsTerminal == [][C9_Step]_vars

\* C10 as stated: in every request of a stream the pairs with the keys skip
\* and limit are exactly the ones the stream computed: one limit, at most
\* one skip, none of them the caller's.
C10_CoreOwnsPaging ==
    \A i \in 1..Len(fetches) :
        SelectSeq(fetches[i].params, LAMBDA p : p.k \in ReservedKeys)
            = fetches[i].add

\* the total length of the first k pages
RECURSIVE SumUpTo(_, _)
SumUpTo(s, k) == IF k = 0 THEN 0 ELSE s[k] + SumUpTo(s, k - 1)

\* C11 as stated: a stream asked for with page size 0 sends no request and
\* delivers a Configuration error.
C11_ZeroPageSizeRejected ==
    limit = 0 =>
        /\ fetches = <<>>
        /\ out # <<>> =>
               out[1].tag = "err" /\ out[1].err.kind = "Configuration"

\* C12: every request after the first carries limit = page size and skip =
\* the total length of the pages all earlier requests returned, and the
\* offset the stream holds is that total, also after a short page.
C12_RefillSkipIsItemsReceived ==
    /\ \A i \in 2..Len(fetches) :
           /\ Len(pages) >= i - 1
           /\ fetches[i].add =
                  <<Pair("skip", SumUpTo(pages, i - 1)), Pair("limit", limit)>>
    /\ stage = "Second" => skip = SumUpTo(pages, Len(pages))

C12_Witness ==
    /\ limit = 2
    /\ pages = <<2, 1>>
    /\ Len(fetches) = 3
    /\ fetches[3].add = <<Pair("skip", 3), Pair("limit", 2)>>
    /\ inflight.active

\* C13 as stated: once any fetch has returned an empty page, the pull that
\* made it has reported the end and no further request is sent.
C13_EmptyPageExhausts ==
    (limit >= 1 /\ Documented) =>
        \A i \in 1..Len(pages) :
            pages[i] = 0 =>
                /\ Len(fetches) = i
                /\ Ended

\* C14: when the upstream size n is a positive multiple of the page size p
\* (documented query, no failing fetch), the pages received are full pages
\* followed by at most one empty page, and a drained stream has received
\* n / p full pages and then one empty page, asked for with skip = n and
\* limit = p, and has delivered the n items and no error.
C14_ExactMultipleDrain ==
    (limit >= 1 /\ Documented /\ failed = 0 /\ upstream # <<>>
        /\ Len(upstream) % limit = 0) =>
        /\ Len(pages) <= Len(upstream) \div limit + 1
        /\ \A i \in 1..Len(pages) :
               pages[i] = IF i <= Len(upstream) \div limit THEN limit ELSE 0
        /\ Ended =>
            /\ Len(pages) = Len(upstream) \div limit + 1
            /\ Len(fetches) = Len(pages)
            /\ Last(fetches).add =
                   <<Pair("skip", Len(upstream)), Pair("limit", limit)>>
            /\ ItemsOf(out) = upstream
            /\ Count(out, "err") = 0

C14_Witness ==
    /\ limit = 2
    /\ Documented
    /\ Len(upstream) = 4
    /\ pages = <<2, 2, 0>>
    /\ Ended
    /\ ItemsOf(out) = upstream

\* requests sent and not yet answered
Outstanding ==
    Len(fetches) - Len(pages) - failed - (IF stage = "Panicked" THEN 1 ELSE 0)

\* C15: at most one request is outstanding, and only while the buffer is
\* empty; a request is sent only by a pull that has an empty buffer, which
\* then waits for it without delivering anything; a pull that finds the
\* buffer non-empty delivers its next entry and sends nothing.
C15_OneOutstanding ==
    /\ Outstanding \in {0, 1}
    /\ Outstanding = 1 <=> inflight.active
    /\ inflight.active => data = <<>>

C15_Step ==
    /\ C15_OneOutstanding
    /\ C15_OneOutstanding'
    /\ fetches' # fetches =>
        /\ Len(fetches') = Len(fetches) + 1
        /\ data' = <<>>
        /\ pulling'
        /\ out' = out
    /\ (~pulling /\ data # <<>> /\ out' # out) =>
        /\ out' = Append(out, Item(Last(data)))
        /\ data' = Front(data)
        /\ fetches' = fetches
        /\ ~inflight'.active

C15_NoReadAhead == [][C15_Step]_vars

C15_Witness ==
    /\ limit = 3
    /\ Count(out, "item") = 3
    /\ Len(out) = 3
    /\ Len(fetches) = 1
    /\ data = <<>>
    /\ ~inflight.active
    /\ ~pulling

\* C17: the first end a stream reports without an error comes from a pull
\* that waited for a refill (sent from an empty buffer, with an explicit
\* skip) which returned an empty page; the step that receives the initial
\* page or a non-empty page never reports the end.
C17_Step ==
    /\ (Count(out, "end") = 0 /\ Count(out', "end") > 0 /\ failed = 0) =>
        /\ pulling
        /\ stage = "Second"
        /\ inflight.active
        /\ inflight.add = <<Pair("skip", skip), Pair("limit", limit)>>
        /\ data = <<>>
        /\ Len(pages) >= 1
        /\ pages' = Append(pages, 0)
        /\ fetches' = fetches
    /\ (pages' # pages /\ (Len(pages') = 1 \/ Last(pages') > 0)) =>
        Count(out', "end") = 0
    /\ (Count(out', "end") > 0 /\ failed' = 0) =>
        /\ Len(pages') >= 2
        /\ Last(pages') = 0
        /\ Len(fetches') = Len(pages')

C17_EndsOnlyOnEmptyRefill == [][C17_Step]_vars

C17_Witness ==
    /\ limit = 2
    /\ pages = <<2, 1, 0>>
    /\ failed = 0
    /\ out = <<Item(1), Item(2), Item(3), End>>

\* C18: between a successful initial load and a failure, the offset held by
\* the stream is the number of items delivered plus the number buffered,
\* and the delivered items followed by the buffered ones are the items
\* received.
C18_SkipIsDeliveredPlusBuffered ==
    (stage = "Second" /\ failed = 0) =>
        /\ skip = Count(out, "item") + Len(data)
        /\ ItemsOf(out) \o Reverse(data) = received

C18_Witness ==
    /\ stage = "Second"
    /\ failed = 0
    /\ limit = 3
    /\ Count(out, "item") = 4
    /\ Len(data) = 1
    /\ skip = 5

\* the position of the first error among results, or 0
FirstError(results) ==
    IF \A i \in 1..Len(results) : results[i].tag # "err" THEN 0
    ELSE CHOOSE i \in 1..Len(results) :
             /\ results[i].tag = "err"
             /\ \A j \in 1..(i - 1) : results[j].tag # "err"

\* C19: into_vec returns only when the stream has ended; it returns Ok with
\* every delivered item in delivery order when no pull yielded an error, and
\* otherwise the first error yielded, with none of the items.
C19_IntoVecAllOrFirstError ==
    collected # NoCollected =>
        /\ source = <<>>
        /\ FirstError(gathered) = 0 =>
            /\ collected.tag = "Ok"
            /\ Len(collected.val) = Len(gathered)
            /\ \A i \in 1..Len(gathered) : collected.val[i] = gathered[i].val
        /\ FirstError(gathered) > 0 =>
            /\ collected.tag = "Err"
            /\ collected.err = gathered[FirstError(gathered)].err
            /\ collected.val = <<>>

C19_Witness ==
    /\ collected.tag = "Err"
    /\ collected.err.kind = "Api"
    /\ gathered = <<Item(2), Error(api_error("not found")),
                    Error(ErrorFrom("Transport", 0))>>

\* what a stream over NO_QUERY does when it runs alone: its i-th request, the
\* items it has delivered, and how it ends
AloneRequest(s, i) ==
    [active |-> TRUE,
     url |-> BASE_URL,
     params |-> IF i = 1 THEN <<Pair("limit", s.limit)>>
                ELSE <<Pair("skip", Min((i - 1) * s.limit, Len(s.upstream))),
                       Pair("limit", s.limit)>>,
     add |-> IF i = 1 THEN <<Pair("limit", s.limit)>>
             ELSE <<Pair("skip", Min((i - 1) * s.limit, Len(s.upstream))),
                    Pair("limit", s.limit)>>]

AsAlone(s) ==
    /\ \A i \in 1..Len(s.fetches) : s.fetches[i] = AloneRequest(s, i)
    /\ Len(s.fetches) <= CeilDiv(Len(s.upstream), s.limit) + 1
           + (IF s.upstream = <<>> THEN 1 ELSE 0)
    /\ ItemsOf(s.out) = SubSeq(s.upstream, 1, Count(s.out, "item"))
    /\ Count(s.out, "err") = s.failed
    /\ s.failed <= 1
    /\ (Count(s.out, "end") > 0 /\ s.failed = 0) =>
        /\ ItemsOf(s.out) = s.upstream
        /\ Len(s.fetches) = CeilDiv(Len(s.upstream), s.limit) + 1
               + (IF s.upstream = <<>> THEN 1 ELSE 0)

\* C16: of two streams created from one client and pulled in any
\* interleaving, a step of one leaves the other's whole state (buffer, skip,
\* stage, requests, output) and the client unchanged, turning from one to
\* the other changes neither, and each sends the requests and delivers the
\* items and the end it would alone.
C16_Step ==
    /\ client' = client
    /\ client = new(TOKEN)
    /\ focus' = focus => peer' = peer
    /\ focus' # focus => (peer' = Current /\ Current' = peer)
    /\ AsAlone(Current)'
    /\ AsAlone(peer)'

C16_StreamsAreIndependent == [][C16_Step]_vars

C16_Witness ==
    /\ focus = 2
    /\ limit = 2
    /\ upstream = <<1, 2>>
    /\ peer.upstream = <<1, 2>>
    /\ pulling
    /\ inflight.active
    /\ Count(out, "item") = 2
    /\ Len(fetches) = 2
    /\ peer.pulling
    /\ peer.inflight.active
    /\ Count(peer.out, "item") = 1
    /\ Len(peer.fetches) = 2

====
